---- MODULE Spec2Model ----
(***************************************************************************)
(* Worker pools of heekof/go (worker-patterns program, channels demo).     *)
(*                                                                         *)
(* Five programs are modelled, each with its own specification:            *)
(*   SpecPool : the finite send-then-collect pools (basicWorkerPool,       *)
(*              workerPoolWithErrors, workerPattern)                       *)
(*   SpecCtx  : workerPoolWithContext / contextWorker (FairSpecCtx adds    *)
(*              the scheduler's weak fairness)                             *)
(*   SpecRate : rateLimitedWorkerPool / rateLimitedWorker (SpecRateCounted *)
(*              also counts the tokens taken per ticker window)            *)
(*   SpecDb   : the mutex demo of task-manager/main.go (main, dbCall)      *)
(*   SpecPipe : pipelineDemo of channels-demo.go (FairSpecPipe adds the    *)
(*              scheduler's weak fairness)                                 *)
(* A Go channel is a FIFO sequence with a capacity and a closed flag; a    *)
(* goroutine is a program counter plus its locals; one action is one       *)
(* channel operation or one branch of a select.                            *)
(***************************************************************************)
EXTENDS Integers, Sequences, FiniteSets, Bags, TLC

\* ---- bounds of the model ----
\* number of jobs the finite pools send (10, 8 and 5 in the source)
NumJobs == 3
\* number of workers of the finite pools (3, 2 and 3 in the source)
NumWorkers == 2
\* largest channel capacity tried for the finite pools (100, 50, 5 in the source)
MaxCap == 2

\* number of jobs the job-sending goroutine of workerPoolWithContext may push
\* (unbounded in the source: for j := 1; ; j++)
MaxCtxJobs == 3
\* largest capacity tried for the channels of workerPoolWithContext (20 and 20
\* in the source)
MaxCtxCap == 1

Workers == 1..NumWorkers

\* for w := 1; w <= 2; w++ in workerPoolWithContext
NumCtxWorkers == 2

CtxWorkers == 1..NumCtxWorkers

\* number of ticker firings the model follows (the ticker of the source never stops)
MaxTicks == 3

\* rateLimitedWorkerPool: for j := 1; j <= 6; j++
NumRateJobs == 6
\* for w := 1; w <= 3; w++
NumRateWorkers == 3
\* jobs := make(chan Job, 10)
RateJobsCap == 10
\* results := make(chan Result, 10)
RateResultsCap == 10
\* rateLimiter := make(chan struct{}, 2)
RateLimiterCap == 2

RateWorkers == 1..NumRateWorkers

\* for i := 1; i <= 5; i++ of pipelineDemo's first stage
NumPipeline == 5

\* number of entries of dbData, one dbCall goroutine each (10 in the source)
NumDbCalls == 3
\* the indexes of dbData
DbCalls == 0..(NumDbCalls - 1)

VARIABLES
  \* ---- finite pools ----
  pool,          \* which function runs: "basic", "errors" or "pattern"
  jobsCap,       \* cap(jobs)
  resultsCap,    \* cap(results)
  jobs,          \* the jobs channel's buffer
  jobsClosed,    \* close(jobs) was executed
  results,       \* the results channel's buffer
  mainPc,        \* position of the function body: send, collect, done
  j,             \* loop variable of the send loop
  r,             \* loop variable of the collect loop
  successCount,
  errorCount,
  wPc,           \* per worker: range, work, done
  wJob,          \* per worker: the job taken by the range loop (0: none)
  dispatched,    \* history: job ids pushed into jobs, in order
  received,      \* history: the results the collect loop has read, in order
  claimed,       \* history, per worker: the job ids it took from jobs, in order
  \* ---- workerPoolWithContext ----
  ctxDone,       \* ctx.Done() is closed (the deadline passed; ctx.Err() != nil)
  ctxJobsCap,    \* cap(jobs)
  ctxResultsCap, \* cap(results)
  ctxJobs,       \* the jobs channel's buffer
  ctxJobsClosed, \* close(jobs) was executed
  closeCount,    \* history: how many times close(jobs) was executed
  ctxResults,    \* the results channel's buffer
  senderPc,      \* the job-sending goroutine: select, done
  senderJ,       \* its loop variable j
  cwPc,          \* per contextWorker: select, check, push, pushCancelled, done
  cwJob,         \* per contextWorker: the job received (0: none)
  wg,            \* the WaitGroup's counter
  collectorPc,   \* the result-collecting goroutine: select, done
  ctxMainPc,     \* the function body: waitCtx, wgWait, returned
  ctxDispatched, \* history: job ids pushed into jobs, in order
  ctxEmitted,    \* history: the Results pushed by workers, in order
  ctxReceived,   \* history: the Results the collector has read, in order
  \* ---- rateLimitedWorkerPool ----
  rateJobs,        \* the jobs channel's buffer
  rateJobsClosed,  \* close(jobs) was executed
  rateResults,     \* the results channel's buffer
  rateMainPc,      \* the function body: send, collect, done
  rateJ,           \* loop variable of the send loop
  rateR,           \* loop variable of the collect loop
  rwPc,            \* per rateLimitedWorker: range, token, push, done
  rwJob,           \* per rateLimitedWorker: the job taken (0: none)
  rateLimiter,     \* number of tokens in the rateLimiter channel
  tickerC,         \* number of ticks waiting in ticker.C (capacity 1)
  refillPc,        \* the refill goroutine: wait, send1, send2
  ticks,           \* history: number of ticker firings so far
  consumedInWindow,\* history: tokens taken since the last ticker firing
  firstStartTick,  \* history: ticks when the first job began processing
  \* ---- mutex demo (task-manager/main.go) ----
  dbResults,     \* the slice results
  dbLocked,      \* mutuelExclusion is held
  dbPc,          \* per dbCall: off, sleep, lock, read, write, unlock, return, done
  dbLocal,       \* per dbCall: the value of results its append has read
  dbWg,          \* the counter of waitGroup
  dbMainPc,      \* main: loop, waited
  dbI,           \* main's loop variable i
  \* ---- pipelineDemo (channels-demo.go) ----
  genPc,           \* stage 1: send, parked (blocked in numbers <- i), done
  genI,            \* stage 1: its loop variable i
  numbersParked,   \* numbers: the value of the sender blocked on it (0: none)
  numbersWaiting,  \* numbers: a receiver is blocked on it
  numbersClosed,   \* close(numbers) was executed
  sqPc,            \* stage 2: recv, parked, send, sendParked, close, done
  sqNum,           \* stage 2: num (0: none)
  squaresParked,   \* squares: the value of the sender blocked on it (0: none)
  squaresWaiting,  \* squares: a receiver is blocked on it
  squaresClosed,   \* close(squares) was executed
  pmPc,            \* stage 3, the function body: recv, parked, print, done
  pmSquare,        \* stage 3: square (0: none)
  printed          \* history: the squares printed, in order

poolVars == <<pool, jobsCap, resultsCap, jobs, jobsClosed, results, mainPc, j, r,
              successCount, errorCount, wPc, wJob, dispatched, received, claimed>>

ctxVars == <<ctxDone, ctxJobsCap, ctxResultsCap, ctxJobs, ctxJobsClosed, closeCount,
             ctxResults, senderPc, senderJ, cwPc, cwJob, wg, collectorPc, ctxMainPc,
             ctxDispatched, ctxEmitted, ctxReceived>>

rateVars == <<rateJobs, rateJobsClosed, rateResults, rateMainPc, rateJ, rateR, rwPc,
              rwJob, rateLimiter, tickerC, refillPc, ticks, consumedInWindow,
              firstStartTick>>

dbVars == <<dbResults, dbLocked, dbPc, dbLocal, dbWg, dbMainPc, dbI>>

pipeVars == <<genPc, genI, numbersParked, numbersWaiting, numbersClosed, sqPc, sqNum,
              squaresParked, squaresWaiting, squaresClosed, pmPc, pmSquare, printed>>

vars == <<poolVars, ctxVars, rateVars, dbVars, pipeVars>>

\* the variables of the programs other than the one that runs
notPool == <<ctxVars, rateVars, dbVars, pipeVars>>
notCtx == <<poolVars, rateVars, dbVars, pipeVars>>
notRate == <<poolVars, ctxVars, dbVars, pipeVars>>
notDb == <<poolVars, ctxVars, rateVars, pipeVars>>
notPipe == <<poolVars, ctxVars, rateVars, dbVars>>

\* ---- Job / Result ----
\* Result{Job, Output, Error}: Output names the worker (0: none); in
\* workerPattern a result is the bare int job*2, kept in output with job = 0.
Result(job, output, err) == [job |-> job, output |-> output, err |-> err]

\* the job id a result carries
ResultJobId(res) == IF res.job = 0 THEN res.output \div 2 ELSE res.job

\* ---- finite pools: initial state ----
InitPool ==
  /\ pool \in {"basic", "errors", "pattern"}
  /\ jobsCap \in 1..MaxCap
  /\ resultsCap \in 1..MaxCap
  /\ jobs = <<>>
  /\ jobsClosed = FALSE
  /\ results = <<>>
  /\ mainPc = "send"
  /\ j = 1
  /\ r = 1
  /\ successCount = 0
  /\ errorCount = 0
  /\ wPc = [w \in Workers |-> "range"]
  /\ wJob = [w \in Workers |-> 0]
  /\ dispatched = <<>>
  /\ received = <<>>
  /\ claimed = [w \in Workers |-> <<>>]

\* ---- finite pools: the function body ----
\* for j := 1; j <= N; j++ { jobs <- Job{ID: j} }
MainSend ==
  /\ mainPc = "send"
  /\ j <= NumJobs
  /\ Len(jobs) < jobsCap
  /\ jobs' = Append(jobs, j)
  /\ dispatched' = Append(dispatched, j)
  /\ j' = j + 1
  /\ UNCHANGED <<notPool, pool, jobsCap, resultsCap, jobsClosed, results, mainPc, r,
                 successCount, errorCount, wPc, wJob, received, claimed>>

\* a function body that goes on to collect without close(jobs)
MainNoClose ==
  /\ mainPc = "send"
  /\ j > NumJobs
  /\ mainPc' = "collect"
  /\ UNCHANGED <<notPool, pool, jobsCap, resultsCap, jobs, jobsClosed, results, j, r,
                 successCount, errorCount, wPc, wJob, dispatched, received, claimed>>

\* close(jobs)
MainClose ==
  /\ mainPc = "send"
  /\ j > NumJobs
  /\ jobsClosed' = TRUE
  /\ mainPc' = "collect"
  /\ UNCHANGED <<notPool, pool, jobsCap, resultsCap, jobs, results, j, r,
                 successCount, errorCount, wPc, wJob, dispatched, received, claimed>>

\* a collect loop that forgets errorCount++
MainCollectNoErrorCount ==
  /\ mainPc = "collect"
  /\ r <= NumJobs
  /\ Len(results) > 0
  /\ received' = Append(received, Head(results))
  /\ results' = Tail(results)
  /\ r' = r + 1
  /\ IF pool = "errors" /\ Head(results).err = "none"
       THEN successCount' = successCount + 1
       ELSE UNCHANGED successCount
  /\ UNCHANGED <<notPool, pool, jobsCap, resultsCap, jobs, jobsClosed, mainPc, j,
                 errorCount, wPc, wJob, dispatched, claimed>>

\* for r := 1; r <= N; r++ { result := <-results; count it }
MainCollect ==
  /\ mainPc = "collect"
  /\ r <= NumJobs
  /\ Len(results) > 0
  /\ received' = Append(received, Head(results))
  /\ results' = Tail(results)
  /\ r' = r + 1
  /\ IF pool = "errors"
       THEN IF Head(results).err # "none"
              THEN /\ errorCount' = errorCount + 1
                   /\ UNCHANGED successCount
              ELSE /\ successCount' = successCount + 1
                   /\ UNCHANGED errorCount
       ELSE UNCHANGED <<successCount, errorCount>>
  /\ UNCHANGED <<notPool, pool, jobsCap, resultsCap, jobs, jobsClosed, mainPc, j,
                 wPc, wJob, dispatched, claimed>>

\* the collect loop ends and the function returns
MainReturn ==
  /\ mainPc = "collect"
  /\ r > NumJobs
  /\ mainPc' = "done"
  /\ UNCHANGED <<notPool, pool, jobsCap, resultsCap, jobs, jobsClosed, results, j, r,
                 successCount, errorCount, wPc, wJob, dispatched, received, claimed>>

\* ---- finite pools: the workers ----
\* for job := range jobs: a job is received
WorkerRange(w) ==
  /\ wPc[w] = "range"
  /\ Len(jobs) > 0
  /\ wJob' = [wJob EXCEPT ![w] = Head(jobs)]
  /\ jobs' = Tail(jobs)
  /\ wPc' = [wPc EXCEPT ![w] = "work"]
  /\ claimed' = [claimed EXCEPT ![w] = Append(@, Head(jobs))]
  /\ UNCHANGED <<notPool, pool, jobsCap, resultsCap, jobsClosed, results, mainPc, j, r,
                 successCount, errorCount, dispatched, received>>

\* for job := range jobs: the channel is closed and empty, the worker returns
WorkerExit(w) ==
  /\ wPc[w] = "range"
  /\ Len(jobs) = 0
  /\ jobsClosed
  /\ wPc' = [wPc EXCEPT ![w] = "done"]
  /\ UNCHANGED <<notPool, pool, jobsCap, resultsCap, jobs, jobsClosed, results, mainPc, j, r,
                 successCount, errorCount, wJob, dispatched, received, claimed>>

\* the pushes of a worker, given where it goes after a failed job and the job
\* it puts into the Result
WorkerPush(w, afterFailure, job) ==
  /\ wPc[w] = "work"
  /\ Len(results) < resultsCap
  /\ \/ \* basicWorker: results <- Result{Job, Output}
        /\ pool = "basic"
        /\ results' = Append(results, Result(job, w, "none"))
        /\ wPc' = [wPc EXCEPT ![w] = "range"]
     \/ \* errorProneWorker, rand.Intn(10) < 3: results <- Result{Job, Error}
        /\ pool = "errors"
        /\ results' = Append(results, Result(job, 0, "failure"))
        /\ wPc' = [wPc EXCEPT ![w] = afterFailure]
     \/ \* errorProneWorker, otherwise: results <- Result{Job, Output}
        /\ pool = "errors"
        /\ results' = Append(results, Result(job, w, "none"))
        /\ wPc' = [wPc EXCEPT ![w] = "range"]
     \/ \* worker of workerPattern: results <- job * 2
        /\ pool = "pattern"
        /\ results' = Append(results, Result(0, job * 2, "none"))
        /\ wPc' = [wPc EXCEPT ![w] = "range"]
  /\ wJob' = [wJob EXCEPT ![w] = 0]
  /\ UNCHANGED <<notPool, pool, jobsCap, resultsCap, jobs, jobsClosed, mainPc, j, r,
                 successCount, errorCount, dispatched, received, claimed>>

\* a worker that returns after a failed job
WorkerSendStopOnFailure(w) == WorkerPush(w, "done", wJob[w])

\* a worker that reports its own id where the job's belongs
WorkerSendWorkerId(w) == WorkerPush(w, "range", w)

\* a worker whose Result goes to the front of the result queue
WorkerSendToFront(w) ==
  /\ wPc[w] = "work"
  /\ Len(results) < resultsCap
  /\ results' = <<IF pool = "pattern" THEN Result(0, wJob[w] * 2, "none")
                                      ELSE Result(wJob[w], w, "none")>> \o results
  /\ wPc' = [wPc EXCEPT ![w] = "range"]
  /\ wJob' = [wJob EXCEPT ![w] = 0]
  /\ UNCHANGED <<notPool, pool, jobsCap, resultsCap, jobs, jobsClosed, mainPc, j, r,
                 successCount, errorCount, dispatched, received, claimed>>

\* the body of the range loop ends with the push of one Result
WorkerSend(w) == WorkerPush(w, "range", wJob[w])

\* a rate limiter that is full when the workers start
InitRateFull ==
  /\ rateJobs = <<>>
  /\ rateJobsClosed = FALSE
  /\ rateResults = <<>>
  /\ rateMainPc = "send"
  /\ rateJ = 1
  /\ rateR = 1
  /\ rwPc = [w \in RateWorkers |-> "range"]
  /\ rwJob = [w \in RateWorkers |-> 0]
  /\ rateLimiter = RateLimiterCap
  /\ tickerC = 0
  /\ refillPc = "wait"
  /\ ticks = 0
  /\ consumedInWindow = 0
  /\ firstStartTick = 0

\* ---- rateLimitedWorkerPool: initial state (goroutines spawned) ----
InitRate ==
  /\ rateJobs = <<>>
  /\ rateJobsClosed = FALSE
  /\ rateResults = <<>>
  /\ rateMainPc = "send"
  /\ rateJ = 1
  /\ rateR = 1
  /\ rwPc = [w \in RateWorkers |-> "range"]
  /\ rwJob = [w \in RateWorkers |-> 0]
  /\ rateLimiter = 0
  /\ tickerC = 0
  /\ refillPc = "wait"
  /\ ticks = 0
  /\ consumedInWindow = 0
  /\ firstStartTick = 0

\* number of Results pushed so far: those in the channel and those collected
Emitted == Len(rateResults) + (rateR - 1)

\* number of jobs that began processing: those being processed and those done
Started == Cardinality({w \in RateWorkers : rwPc[w] = "push"}) + Emitted

\* ---- the ticker and the refill goroutine ----
\* time.NewTicker(time.Second) fires: the tick goes into ticker.C, or is dropped
\* when the previous one has not been received
TickFires ==
  /\ ticks < MaxTicks
  /\ ticks' = ticks + 1
  /\ tickerC' = 1
  /\ UNCHANGED <<notRate, rateJobs, rateJobsClosed, rateResults, rateMainPc, rateJ,
                 rateR, rwPc, rwJob, rateLimiter, refillPc>>

Tick == TickFires /\ UNCHANGED <<consumedInWindow, firstStartTick>>

\* the same step, opening a new window of the per-window count
TickCounted == TickFires /\ consumedInWindow' = 0 /\ UNCHANGED firstStartTick

\* case <-ticker.C
RefillReceive ==
  /\ refillPc = "wait"
  /\ tickerC > 0
  /\ tickerC' = tickerC - 1
  /\ refillPc' = "send1"
  /\ UNCHANGED <<notRate, rateJobs, rateJobsClosed, rateResults, rateMainPc, rateJ,
                 rateR, rwPc, rwJob, rateLimiter, ticks, consumedInWindow, firstStartTick>>

\* a send that adds a permit whatever the channel holds
UncheckedSend(n) == n + 1

\* select { case rateLimiter <- struct{}{}: default: }: the value of rateLimiter
\* after a non-blocking send
NonBlockingSend(n) == IF n < RateLimiterCap THEN n + 1 ELSE n

\* the first non-blocking send of a refill
RefillSend1 ==
  /\ refillPc = "send1"
  /\ rateLimiter' = NonBlockingSend(rateLimiter)
  /\ refillPc' = "send2"
  /\ UNCHANGED <<notRate, rateJobs, rateJobsClosed, rateResults, rateMainPc, rateJ,
                 rateR, rwPc, rwJob, tickerC, ticks, consumedInWindow, firstStartTick>>

\* the second non-blocking send of a refill
RefillSend2 ==
  /\ refillPc = "send2"
  /\ rateLimiter' = NonBlockingSend(rateLimiter)
  /\ refillPc' = "wait"
  /\ UNCHANGED <<notRate, rateJobs, rateJobsClosed, rateResults, rateMainPc, rateJ,
                 rateR, rwPc, rwJob, tickerC, ticks, consumedInWindow, firstStartTick>>

\* ---- the function body ----
\* for j := 1; j <= 6; j++ { jobs <- Job{ID: j} }
RateMainSend ==
  /\ rateMainPc = "send"
  /\ rateJ <= NumRateJobs
  /\ Len(rateJobs) < RateJobsCap
  /\ rateJobs' = Append(rateJobs, rateJ)
  /\ rateJ' = rateJ + 1
  /\ UNCHANGED <<notRate, rateJobsClosed, rateResults, rateMainPc, rateR, rwPc, rwJob,
                 rateLimiter, tickerC, refillPc, ticks, consumedInWindow, firstStartTick>>

\* close(jobs)
RateMainClose ==
  /\ rateMainPc = "send"
  /\ rateJ > NumRateJobs
  /\ rateJobsClosed' = TRUE
  /\ rateMainPc' = "collect"
  /\ UNCHANGED <<notRate, rateJobs, rateResults, rateJ, rateR, rwPc, rwJob,
                 rateLimiter, tickerC, refillPc, ticks, consumedInWindow, firstStartTick>>

\* for r := 1; r <= 6; r++ { result := <-results }
RateMainCollect ==
  /\ rateMainPc = "collect"
  /\ rateR <= NumRateJobs
  /\ Len(rateResults) > 0
  /\ rateResults' = Tail(rateResults)
  /\ rateR' = rateR + 1
  /\ UNCHANGED <<notRate, rateJobs, rateJobsClosed, rateMainPc, rateJ, rwPc, rwJob,
                 rateLimiter, tickerC, refillPc, ticks, consumedInWindow, firstStartTick>>

\* the collect loop ends and the function returns
RateMainReturn ==
  /\ rateMainPc = "collect"
  /\ rateR > NumRateJobs
  /\ rateMainPc' = "done"
  /\ UNCHANGED <<notRate, rateJobs, rateJobsClosed, rateResults, rateJ, rateR, rwPc,
                 rwJob, rateLimiter, tickerC, refillPc, ticks, consumedInWindow, firstStartTick>>

\* ---- rateLimitedWorker ----
\* for job := range jobs: a job is received
RateWorkerRange(w) ==
  /\ rwPc[w] = "range"
  /\ Len(rateJobs) > 0
  /\ rwJob' = [rwJob EXCEPT ![w] = Head(rateJobs)]
  /\ rateJobs' = Tail(rateJobs)
  /\ rwPc' = [rwPc EXCEPT ![w] = "token"]
  /\ UNCHANGED <<notRate, rateJobsClosed, rateResults, rateMainPc, rateJ, rateR,
                 rateLimiter, tickerC, refillPc, ticks, consumedInWindow, firstStartTick>>

\* for job := range jobs: the channel is closed and empty, the worker returns
RateWorkerExit(w) ==
  /\ rwPc[w] = "range"
  /\ Len(rateJobs) = 0
  /\ rateJobsClosed
  /\ rwPc' = [rwPc EXCEPT ![w] = "done"]
  /\ UNCHANGED <<notRate, rateJobs, rateJobsClosed, rateResults, rateMainPc, rateJ,
                 rateR, rwJob, rateLimiter, tickerC, refillPc, ticks,
                 consumedInWindow, firstStartTick>>

\* <-rateLimiter: the worker takes a permit and goes on to the work
TakesToken(w) ==
  /\ rwPc[w] = "token"
  /\ rateLimiter > 0
  /\ rateLimiter' = rateLimiter - 1
  /\ rwPc' = [rwPc EXCEPT ![w] = "push"]
  /\ UNCHANGED <<notRate, rateJobs, rateJobsClosed, rateResults, rateMainPc, rateJ,
                 rateR, rwJob, tickerC, refillPc, ticks>>

RateWorkerToken(w) == TakesToken(w) /\ UNCHANGED <<consumedInWindow, firstStartTick>>

\* the same step, counted in the current window and remembered when it is the
\* first job start
RateWorkerTokenCounted(w) ==
  /\ TakesToken(w)
  /\ consumedInWindow' = consumedInWindow + 1
  /\ firstStartTick' = IF Started = 0 THEN ticks ELSE firstStartTick

\* results <- Result{Job, Output} (Output, a string that is only printed, is
\* not followed here)
RateWorkerPush(w) ==
  /\ rwPc[w] = "push"
  /\ Len(rateResults) < RateResultsCap
  /\ rateResults' = Append(rateResults, Result(rwJob[w], 0, "none"))
  /\ rwJob' = [rwJob EXCEPT ![w] = 0]
  /\ rwPc' = [rwPc EXCEPT ![w] = "range"]
  /\ UNCHANGED <<notRate, rateJobs, rateJobsClosed, rateMainPc, rateJ, rateR,
                 rateLimiter, tickerC, refillPc, ticks, consumedInWindow,
                 firstStartTick>>

NextRate ==
  \/ Tick
  \/ RefillReceive
  \/ RefillSend1
  \/ RefillSend2
  \/ RateMainSend
  \/ RateMainClose
  \/ RateMainCollect
  \/ RateMainReturn
  \/ \E w \in RateWorkers : RateWorkerRange(w)
  \/ \E w \in RateWorkers : RateWorkerExit(w)
  \/ \E w \in RateWorkers : RateWorkerToken(w)
  \/ \E w \in RateWorkers : RateWorkerPush(w)

\* the same program with the per-window count kept
NextRateCounted ==
  \/ TickCounted
  \/ RefillReceive
  \/ RefillSend1
  \/ RefillSend2
  \/ RateMainSend
  \/ RateMainClose
  \/ RateMainCollect
  \/ RateMainReturn
  \/ \E w \in RateWorkers : RateWorkerRange(w)
  \/ \E w \in RateWorkers : RateWorkerExit(w)
  \/ \E w \in RateWorkers : RateWorkerTokenCounted(w)
  \/ \E w \in RateWorkers : RateWorkerPush(w)

\* ---- mutex demo: main and dbCall of task-manager/main.go ----
\* dbData[i], "data1" .. "data10" in the source, as the number i + 1
DbData(i) == i + 1

\* var results = make([]string, len(dbData)): len(dbData) empty strings (0)
InitDb ==
  /\ dbResults = [k \in 1..NumDbCalls |-> 0]
  /\ dbLocked = FALSE
  /\ dbPc = [i \in DbCalls |-> "off"]
  /\ dbLocal = [i \in DbCalls |-> <<>>]
  /\ dbWg = 0
  /\ dbMainPc = "loop"
  /\ dbI = 0

\* waitGroup.Add(1); go dbCall(i, &waitGroup); i++
DbSpawn ==
  /\ dbMainPc = "loop"
  /\ dbI < NumDbCalls
  /\ dbWg' = dbWg + 1
  /\ dbPc' = [dbPc EXCEPT ![dbI] = "sleep"]
  /\ dbI' = dbI + 1
  /\ UNCHANGED <<notDb, dbResults, dbLocked, dbLocal, dbMainPc>>

\* waitGroup.Wait() returns after the loop: the counter is zero
DbWait ==
  /\ dbMainPc = "loop"
  /\ dbI = NumDbCalls
  /\ dbWg = 0
  /\ dbMainPc' = "waited"
  /\ UNCHANGED <<notDb, dbResults, dbLocked, dbPc, dbLocal, dbWg, dbI>>

\* time.Sleep and the Printf of dbCall end
DbSleep(i) ==
  /\ dbPc[i] = "sleep"
  /\ dbPc' = [dbPc EXCEPT ![i] = "lock"]
  /\ UNCHANGED <<notDb, dbResults, dbLocked, dbLocal, dbWg, dbMainPc, dbI>>

\* a Lock that does not wait for the mutex to be free
DbLockNoWait(i) ==
  /\ dbPc[i] = "lock"
  /\ dbLocked' = TRUE
  /\ dbPc' = [dbPc EXCEPT ![i] = "read"]
  /\ UNCHANGED <<notDb, dbResults, dbLocal, dbWg, dbMainPc, dbI>>

\* mutuelExclusion.Lock()
DbLock(i) ==
  /\ dbPc[i] = "lock"
  /\ ~dbLocked
  /\ dbLocked' = TRUE
  /\ dbPc' = [dbPc EXCEPT ![i] = "read"]
  /\ UNCHANGED <<notDb, dbResults, dbLocal, dbWg, dbMainPc, dbI>>

\* append(results, dbData[i]) reads results
DbRead(i) ==
  /\ dbPc[i] = "read"
  /\ dbLocal' = [dbLocal EXCEPT ![i] = dbResults]
  /\ dbPc' = [dbPc EXCEPT ![i] = "write"]
  /\ UNCHANGED <<notDb, dbResults, dbLocked, dbWg, dbMainPc, dbI>>

\* results = the slice that was read with dbData[i] appended
DbWrite(i) ==
  /\ dbPc[i] = "write"
  /\ dbResults' = Append(dbLocal[i], DbData(i))
  /\ dbLocal' = [dbLocal EXCEPT ![i] = <<>>]
  /\ dbPc' = [dbPc EXCEPT ![i] = "unlock"]
  /\ UNCHANGED <<notDb, dbLocked, dbWg, dbMainPc, dbI>>

\* mutuelExclusion.Unlock()
DbUnlock(i) ==
  /\ dbPc[i] = "unlock"
  /\ dbLocked' = FALSE
  /\ dbPc' = [dbPc EXCEPT ![i] = "return"]
  /\ UNCHANGED <<notDb, dbResults, dbLocal, dbWg, dbMainPc, dbI>>

\* dbCall returns: the deferred waitGroup.Done()
DbDone(i) ==
  /\ dbPc[i] = "return"
  /\ dbWg' = dbWg - 1
  /\ dbPc' = [dbPc EXCEPT ![i] = "done"]
  /\ UNCHANGED <<notDb, dbResults, dbLocked, dbLocal, dbMainPc, dbI>>

NextDb ==
  \/ DbSpawn
  \/ DbWait
  \/ \E i \in DbCalls : DbSleep(i)
  \/ \E i \in DbCalls : DbLock(i)
  \/ \E i \in DbCalls : DbRead(i)
  \/ \E i \in DbCalls : DbWrite(i)
  \/ \E i \in DbCalls : DbUnlock(i)
  \/ \E i \in DbCalls : DbDone(i)

\* ---- pipelineDemo of channels-demo.go ----
\* numbers and squares are unbuffered: a send completes only together with a
\* receive. Whichever side arrives first blocks on the channel (parks); the
\* other side completes the exchange and wakes it.
InitPipe ==
  /\ genPc = "send"
  /\ genI = 1
  /\ numbersParked = 0
  /\ numbersWaiting = FALSE
  /\ numbersClosed = FALSE
  /\ sqPc = "recv"
  /\ sqNum = 0
  /\ squaresParked = 0
  /\ squaresWaiting = FALSE
  /\ squaresClosed = FALSE
  /\ pmPc = "recv"
  /\ pmSquare = 0
  /\ printed = <<>>

\* ---- stage 1 ----
\* numbers <- i with stage 2 blocked in its receive: the value is handed over
GenSendHandoff ==
  /\ genPc = "send"
  /\ genI <= NumPipeline
  /\ numbersWaiting
  /\ numbersWaiting' = FALSE
  /\ sqNum' = genI
  /\ sqPc' = "send"
  /\ genI' = genI + 1
  /\ UNCHANGED <<notPipe, genPc, numbersParked, numbersClosed, squaresParked,
                 squaresWaiting, squaresClosed, pmPc, pmSquare, printed>>

\* numbers <- i with no receiver: stage 1 blocks
GenSendPark ==
  /\ genPc = "send"
  /\ genI <= NumPipeline
  /\ ~numbersWaiting
  /\ numbersParked' = genI
  /\ genPc' = "parked"
  /\ UNCHANGED <<notPipe, genI, numbersWaiting, numbersClosed, sqPc, sqNum, squaresParked,
                 squaresWaiting, squaresClosed, pmPc, pmSquare, printed>>

\* a first stage that returns without close(numbers)
GenReturnNoClose ==
  /\ genPc = "send"
  /\ genI > NumPipeline
  /\ genPc' = "done"
  /\ UNCHANGED <<notPipe, genI, numbersParked, numbersWaiting, numbersClosed, sqPc, sqNum,
                 squaresParked, squaresWaiting, squaresClosed, pmPc, pmSquare, printed>>

\* close(numbers) after the loop; a receiver blocked on numbers is woken and
\* its range loop ends
GenClose ==
  /\ genPc = "send"
  /\ genI > NumPipeline
  /\ numbersClosed' = TRUE
  /\ genPc' = "done"
  /\ numbersWaiting' = FALSE
  /\ sqPc' = IF numbersWaiting THEN "close" ELSE sqPc
  /\ UNCHANGED <<notPipe, genI, numbersParked, sqNum, squaresParked,
                 squaresWaiting, squaresClosed, pmPc, pmSquare, printed>>

\* ---- stage 2 ----
\* for num := range numbers with stage 1 blocked in its send: the value is
\* taken and stage 1 goes on with i++
SqRecvTake ==
  /\ sqPc = "recv"
  /\ numbersParked # 0
  /\ sqNum' = numbersParked
  /\ numbersParked' = 0
  /\ genPc' = "send"
  /\ genI' = genI + 1
  /\ sqPc' = "send"
  /\ UNCHANGED <<notPipe, numbersWaiting, numbersClosed, squaresParked,
                 squaresWaiting, squaresClosed, pmPc, pmSquare, printed>>

\* for num := range numbers with no sender and numbers open: stage 2 blocks
SqRecvPark ==
  /\ sqPc = "recv"
  /\ numbersParked = 0
  /\ ~numbersClosed
  /\ numbersWaiting' = TRUE
  /\ sqPc' = "parked"
  /\ UNCHANGED <<notPipe, genPc, genI, numbersParked, numbersClosed, sqNum, squaresParked,
                 squaresWaiting, squaresClosed, pmPc, pmSquare, printed>>

\* for num := range numbers on the closed channel: the loop ends
SqRecvClosed ==
  /\ sqPc = "recv"
  /\ numbersParked = 0
  /\ numbersClosed
  /\ sqPc' = "close"
  /\ UNCHANGED <<notPipe, genPc, genI, numbersParked, numbersWaiting, numbersClosed, sqNum,
                 squaresParked, squaresWaiting, squaresClosed, pmPc, pmSquare, printed>>

\* squares <- num * num with stage 3 blocked in its receive
SqSendHandoff ==
  /\ sqPc = "send"
  /\ squaresWaiting
  /\ squaresWaiting' = FALSE
  /\ pmSquare' = sqNum * sqNum
  /\ pmPc' = "print"
  /\ sqNum' = 0
  /\ sqPc' = "recv"
  /\ UNCHANGED <<notPipe, genPc, genI, numbersParked, numbersWaiting, numbersClosed,
                 squaresParked, squaresClosed, printed>>

\* squares <- num * num with no receiver: stage 2 blocks
SqSendPark ==
  /\ sqPc = "send"
  /\ ~squaresWaiting
  /\ squaresParked' = sqNum * sqNum
  /\ sqPc' = "sendParked"
  /\ UNCHANGED <<notPipe, genPc, genI, numbersParked, numbersWaiting, numbersClosed, sqNum,
                 squaresWaiting, squaresClosed, pmPc, pmSquare, printed>>

\* close(squares) after the loop; a receiver blocked on squares is woken and
\* its range loop ends
SqClose ==
  /\ sqPc = "close"
  /\ squaresClosed' = TRUE
  /\ sqPc' = "done"
  /\ squaresWaiting' = FALSE
  /\ pmPc' = IF squaresWaiting THEN "done" ELSE pmPc
  /\ UNCHANGED <<notPipe, genPc, genI, numbersParked, numbersWaiting, numbersClosed, sqNum,
                 squaresParked, pmSquare, printed>>

\* ---- stage 3 ----
\* for square := range squares with stage 2 blocked in its send
PipeRecvTake ==
  /\ pmPc = "recv"
  /\ squaresParked # 0
  /\ pmSquare' = squaresParked
  /\ squaresParked' = 0
  /\ sqNum' = 0
  /\ sqPc' = "recv"
  /\ pmPc' = "print"
  /\ UNCHANGED <<notPipe, genPc, genI, numbersParked, numbersWaiting, numbersClosed,
                 squaresWaiting, squaresClosed, printed>>

\* for square := range squares with no sender and squares open: it blocks
PipeRecvPark ==
  /\ pmPc = "recv"
  /\ squaresParked = 0
  /\ ~squaresClosed
  /\ squaresWaiting' = TRUE
  /\ pmPc' = "parked"
  /\ UNCHANGED <<notPipe, genPc, genI, numbersParked, numbersWaiting, numbersClosed, sqPc,
                 sqNum, squaresParked, squaresClosed, pmSquare, printed>>

\* for square := range squares on the closed channel: the function returns
PipeRecvClosed ==
  /\ pmPc = "recv"
  /\ squaresParked = 0
  /\ squaresClosed
  /\ pmPc' = "done"
  /\ UNCHANGED <<notPipe, genPc, genI, numbersParked, numbersWaiting, numbersClosed, sqPc,
                 sqNum, squaresParked, squaresWaiting, squaresClosed, pmSquare, printed>>

\* fmt.Printf("Square: %d\n", square)
PipePrint ==
  /\ pmPc = "print"
  /\ printed' = Append(printed, pmSquare)
  /\ pmSquare' = 0
  /\ pmPc' = "recv"
  /\ UNCHANGED <<notPipe, genPc, genI, numbersParked, numbersWaiting, numbersClosed, sqPc,
                 sqNum, squaresParked, squaresWaiting, squaresClosed>>

Gen == GenSendHandoff \/ GenSendPark \/ GenClose

Sq == SqRecvTake \/ SqRecvPark \/ SqRecvClosed \/ SqSendHandoff \/ SqSendPark \/ SqClose

PipeMain == PipeRecvTake \/ PipeRecvPark \/ PipeRecvClosed \/ PipePrint

NextPipe ==
  \/ GenSendHandoff
  \/ GenSendPark
  \/ GenClose
  \/ SqRecvTake
  \/ SqRecvPark
  \/ SqRecvClosed
  \/ SqSendHandoff
  \/ SqSendPark
  \/ SqClose
  \/ PipeRecvTake
  \/ PipeRecvPark
  \/ PipeRecvClosed
  \/ PipePrint

\* the finite pools at their start, one fixed configuration (while another
\* program runs)
PoolIdle ==
  /\ InitPool
  /\ pool = "basic"
  /\ jobsCap = 1
  /\ resultsCap = 1

\* ---- workerPoolWithContext: initial state (workers and goroutines spawned) ----
InitCtx ==
  /\ ctxDone = FALSE
  /\ ctxJobsCap \in 1..MaxCtxCap
  /\ ctxResultsCap \in 1..MaxCtxCap
  /\ ctxJobs = <<>>
  /\ ctxJobsClosed = FALSE
  /\ closeCount = 0
  /\ ctxResults = <<>>
  /\ senderPc = "select"
  /\ senderJ = 1
  /\ cwPc = [w \in CtxWorkers |-> "select"]
  /\ cwJob = [w \in CtxWorkers |-> 0]
  /\ wg = NumCtxWorkers
  /\ collectorPc = "select"
  /\ ctxMainPc = "waitCtx"
  /\ ctxDispatched = <<>>
  /\ ctxEmitted = <<>>
  /\ ctxReceived = <<>>

CtxIdle ==
  /\ InitCtx
  /\ ctxJobsCap = 1
  /\ ctxResultsCap = 1

\* context.WithTimeout: the deadline passes, ctx.Done() is closed
CtxTimeout ==
  /\ ~ctxDone
  /\ ctxDone' = TRUE
  /\ UNCHANGED <<notCtx, ctxJobsCap, ctxResultsCap, ctxJobs, ctxJobsClosed, closeCount,
                 ctxResults, senderPc, senderJ, cwPc, cwJob, wg, collectorPc,
                 ctxMainPc, ctxDispatched, ctxEmitted, ctxReceived>>

\* ---- the job-sending goroutine ----
\* a sender that pushes without the j++ of its loop
SenderPushNoIncrement ==
  /\ senderPc = "select"
  /\ senderJ <= MaxCtxJobs
  /\ Len(ctxJobs) < ctxJobsCap
  /\ ctxJobs' = Append(ctxJobs, senderJ)
  /\ ctxDispatched' = Append(ctxDispatched, senderJ)
  /\ UNCHANGED <<notCtx, ctxDone, ctxJobsCap, ctxResultsCap, ctxJobsClosed, closeCount,
                 ctxResults, senderPc, senderJ, cwPc, cwJob, wg, collectorPc, ctxMainPc,
                 ctxEmitted, ctxReceived>>

\* select case jobs <- Job{ID: j}; then sleep and j++
SenderPush ==
  /\ senderPc = "select"
  /\ senderJ <= MaxCtxJobs
  /\ Len(ctxJobs) < ctxJobsCap
  /\ ctxJobs' = Append(ctxJobs, senderJ)
  /\ ctxDispatched' = Append(ctxDispatched, senderJ)
  /\ senderJ' = senderJ + 1
  /\ UNCHANGED <<notCtx, ctxDone, ctxJobsCap, ctxResultsCap, ctxJobsClosed, closeCount,
                 ctxResults, senderPc, cwPc, cwJob, wg, collectorPc, ctxMainPc,
                 ctxEmitted, ctxReceived>>

\* a sender that returns without closing jobs
SenderStopNoClose ==
  /\ senderPc = "select"
  /\ ctxDone
  /\ senderPc' = "done"
  /\ UNCHANGED <<notCtx, ctxDone, ctxJobsCap, ctxResultsCap, ctxJobs, ctxJobsClosed, closeCount,
                 ctxResults, senderJ, cwPc, cwJob, wg, collectorPc, ctxMainPc,
                 ctxDispatched, ctxEmitted, ctxReceived>>

\* select case <-ctx.Done(): return, and the deferred close(jobs)
SenderStop ==
  /\ senderPc = "select"
  /\ ctxDone
  /\ senderPc' = "done"
  /\ ctxJobsClosed' = TRUE
  /\ closeCount' = closeCount + 1
  /\ UNCHANGED <<notCtx, ctxDone, ctxJobsCap, ctxResultsCap, ctxJobs,
                 ctxResults, senderJ, cwPc, cwJob, wg, collectorPc, ctxMainPc,
                 ctxDispatched, ctxEmitted, ctxReceived>>

\* ---- contextWorker ----
\* select case job, ok := <-jobs with ok: a job is received
CtxWorkerReceive(w) ==
  /\ cwPc[w] = "select"
  /\ Len(ctxJobs) > 0
  /\ cwJob' = [cwJob EXCEPT ![w] = Head(ctxJobs)]
  /\ ctxJobs' = Tail(ctxJobs)
  /\ cwPc' = [cwPc EXCEPT ![w] = "check"]
  /\ UNCHANGED <<notCtx, ctxDone, ctxJobsCap, ctxResultsCap, ctxJobsClosed, closeCount,
                 ctxResults, senderPc, senderJ, wg, collectorPc, ctxMainPc,
                 ctxDispatched, ctxEmitted, ctxReceived>>

\* select case job, ok := <-jobs with !ok: return, and the deferred wg.Done()
CtxWorkerClosed(w) ==
  /\ cwPc[w] = "select"
  /\ Len(ctxJobs) = 0
  /\ ctxJobsClosed
  /\ cwPc' = [cwPc EXCEPT ![w] = "done"]
  /\ wg' = wg - 1
  /\ UNCHANGED <<notCtx, ctxDone, ctxJobsCap, ctxResultsCap, ctxJobs, ctxJobsClosed, closeCount,
                 ctxResults, senderPc, senderJ, cwJob, collectorPc, ctxMainPc,
                 ctxDispatched, ctxEmitted, ctxReceived>>

\* select case <-ctx.Done(): return, and the deferred wg.Done()
CtxWorkerShutdown(w) ==
  /\ cwPc[w] = "select"
  /\ ctxDone
  /\ cwPc' = [cwPc EXCEPT ![w] = "done"]
  /\ wg' = wg - 1
  /\ UNCHANGED <<notCtx, ctxDone, ctxJobsCap, ctxResultsCap, ctxJobs, ctxJobsClosed, closeCount,
                 ctxResults, senderPc, senderJ, cwJob, collectorPc, ctxMainPc,
                 ctxDispatched, ctxEmitted, ctxReceived>>

\* a worker that returns on ctx.Err() != nil without pushing a Result
CtxWorkerCheckDrop(w) ==
  /\ cwPc[w] = "check"
  /\ cwPc' = [cwPc EXCEPT ![w] = IF ctxDone THEN "done" ELSE "push"]
  /\ wg' = IF ctxDone THEN wg - 1 ELSE wg
  /\ UNCHANGED <<notCtx, ctxDone, ctxJobsCap, ctxResultsCap, ctxJobs, ctxJobsClosed, closeCount,
                 ctxResults, senderPc, senderJ, cwJob, collectorPc, ctxMainPc,
                 ctxDispatched, ctxEmitted, ctxReceived>>

\* if ctx.Err() != nil: the worker goes on to push the cancelled Result,
\* otherwise to the work (time.Sleep) and the push of its Result
CtxWorkerCheck(w) ==
  /\ cwPc[w] = "check"
  /\ cwPc' = [cwPc EXCEPT ![w] = IF ctxDone THEN "pushCancelled" ELSE "push"]
  /\ UNCHANGED <<notCtx, ctxDone, ctxJobsCap, ctxResultsCap, ctxJobs, ctxJobsClosed, closeCount,
                 ctxResults, senderPc, senderJ, cwJob, wg, collectorPc, ctxMainPc,
                 ctxDispatched, ctxEmitted, ctxReceived>>

\* results <- Result{Job, Error: context cancelled}; return; deferred wg.Done()
CtxWorkerPushCancelled(w) ==
  /\ cwPc[w] = "pushCancelled"
  /\ Len(ctxResults) < ctxResultsCap
  /\ ctxResults' = Append(ctxResults, Result(cwJob[w], 0, "cancelled"))
  /\ ctxEmitted' = Append(ctxEmitted, Result(cwJob[w], 0, "cancelled"))
  /\ cwJob' = [cwJob EXCEPT ![w] = 0]
  /\ cwPc' = [cwPc EXCEPT ![w] = "done"]
  /\ wg' = wg - 1
  /\ UNCHANGED <<notCtx, ctxDone, ctxJobsCap, ctxResultsCap, ctxJobs, ctxJobsClosed, closeCount,
                 senderPc, senderJ, collectorPc, ctxMainPc, ctxDispatched, ctxReceived>>

\* results <- Result{Job, Output}; back to the select
CtxWorkerPush(w) ==
  /\ cwPc[w] = "push"
  /\ Len(ctxResults) < ctxResultsCap
  /\ ctxResults' = Append(ctxResults, Result(cwJob[w], w, "none"))
  /\ ctxEmitted' = Append(ctxEmitted, Result(cwJob[w], w, "none"))
  /\ cwJob' = [cwJob EXCEPT ![w] = 0]
  /\ cwPc' = [cwPc EXCEPT ![w] = "select"]
  /\ UNCHANGED <<notCtx, ctxDone, ctxJobsCap, ctxResultsCap, ctxJobs, ctxJobsClosed, closeCount,
                 senderPc, senderJ, wg, collectorPc, ctxMainPc, ctxDispatched,
                 ctxReceived>>

\* ---- the result-collecting goroutine ----
\* select case result := <-results
CollectorReceive ==
  /\ collectorPc = "select"
  /\ Len(ctxResults) > 0
  /\ ctxReceived' = Append(ctxReceived, Head(ctxResults))
  /\ ctxResults' = Tail(ctxResults)
  /\ UNCHANGED <<notCtx, ctxDone, ctxJobsCap, ctxResultsCap, ctxJobs, ctxJobsClosed, closeCount,
                 senderPc, senderJ, cwPc, cwJob, wg, collectorPc, ctxMainPc,
                 ctxDispatched, ctxEmitted>>

\* select case <-ctx.Done(): return
CollectorStop ==
  /\ collectorPc = "select"
  /\ ctxDone
  /\ collectorPc' = "done"
  /\ UNCHANGED <<notCtx, ctxDone, ctxJobsCap, ctxResultsCap, ctxJobs, ctxJobsClosed, closeCount,
                 ctxResults, senderPc, senderJ, cwPc, cwJob, wg, ctxMainPc,
                 ctxDispatched, ctxEmitted, ctxReceived>>

\* ---- the function body ----
\* <-ctx.Done()
CtxMainDone ==
  /\ ctxMainPc = "waitCtx"
  /\ ctxDone
  /\ ctxMainPc' = "wgWait"
  /\ UNCHANGED <<notCtx, ctxDone, ctxJobsCap, ctxResultsCap, ctxJobs, ctxJobsClosed, closeCount,
                 ctxResults, senderPc, senderJ, cwPc, cwJob, wg, collectorPc,
                 ctxDispatched, ctxEmitted, ctxReceived>>

\* a Wait that returns while the counter is not zero
CtxMainWaitEarly ==
  /\ ctxMainPc = "wgWait"
  /\ wg <= 1
  /\ ctxMainPc' = "returned"
  /\ UNCHANGED <<notCtx, ctxDone, ctxJobsCap, ctxResultsCap, ctxJobs, ctxJobsClosed, closeCount,
                 ctxResults, senderPc, senderJ, cwPc, cwJob, wg, collectorPc,
                 ctxDispatched, ctxEmitted, ctxReceived>>

\* wg.Wait() returns: the counter is zero
CtxMainWait ==
  /\ ctxMainPc = "wgWait"
  /\ wg = 0
  /\ ctxMainPc' = "returned"
  /\ UNCHANGED <<notCtx, ctxDone, ctxJobsCap, ctxResultsCap, ctxJobs, ctxJobsClosed, closeCount,
                 ctxResults, senderPc, senderJ, cwPc, cwJob, wg, collectorPc,
                 ctxDispatched, ctxEmitted, ctxReceived>>

Sender == SenderPush \/ SenderStop

CtxWorker(w) ==
  \/ CtxWorkerReceive(w)
  \/ CtxWorkerClosed(w)
  \/ CtxWorkerShutdown(w)
  \/ CtxWorkerCheck(w)
  \/ CtxWorkerPushCancelled(w)
  \/ CtxWorkerPush(w)

Collector == CollectorReceive \/ CollectorStop

CtxMain == CtxMainDone \/ CtxMainWait

NextCtx ==
  \/ CtxTimeout
  \/ SenderPush
  \/ SenderStop
  \/ \E w \in CtxWorkers : CtxWorkerReceive(w)
  \/ \E w \in CtxWorkers : CtxWorkerClosed(w)
  \/ \E w \in CtxWorkers : CtxWorkerShutdown(w)
  \/ \E w \in CtxWorkers : CtxWorkerCheck(w)
  \/ \E w \in CtxWorkers : CtxWorkerPushCancelled(w)
  \/ \E w \in CtxWorkers : CtxWorkerPush(w)
  \/ CollectorReceive
  \/ CollectorStop
  \/ CtxMainDone
  \/ CtxMainWait

StartCtx == PoolIdle /\ InitCtx /\ InitRate /\ InitDb /\ InitPipe

SpecCtx == StartCtx /\ [][NextCtx]_vars

\* the Go scheduler runs every goroutine that can take a step, and the timer of
\* context.WithTimeout fires
FairSpecCtx ==
  /\ SpecCtx
  /\ WF_vars(CtxTimeout)
  /\ WF_vars(Sender)
  /\ \A w \in CtxWorkers : WF_vars(CtxWorker(w))
  /\ WF_vars(Collector)
  /\ WF_vars(CtxMain)

StartRate == PoolIdle /\ CtxIdle /\ InitRate /\ InitDb /\ InitPipe

SpecRate == StartRate /\ [][NextRate]_vars

SpecRateCounted == StartRate /\ [][NextRateCounted]_vars

NextPool ==
  \/ MainSend
  \/ MainClose
  \/ MainCollect
  \/ MainReturn
  \/ \E w \in Workers : WorkerRange(w)
  \/ \E w \in Workers : WorkerExit(w)
  \/ \E w \in Workers : WorkerSend(w)

StartPool == InitPool /\ CtxIdle /\ InitRate /\ InitDb /\ InitPipe

SpecPool == StartPool /\ [][NextPool]_vars

StartDb == PoolIdle /\ CtxIdle /\ InitRate /\ InitDb /\ InitPipe

SpecDb == StartDb /\ [][NextDb]_vars

StartPipe == PoolIdle /\ CtxIdle /\ InitRate /\ InitDb /\ InitPipe

SpecPipe == StartPipe /\ [][NextPipe]_vars

\* the Go scheduler runs every goroutine that can take a step
FairSpecPipe ==
  /\ SpecPipe
  /\ WF_vars(Gen)
  /\ WF_vars(Sq)
  /\ WF_vars(PipeMain)

\* ---- claims about the finite pools ----
\* number of positions of seq holding x
Count(seq, x) == Cardinality({i \in DOMAIN seq : seq[i] = x})

\* the job ids carried by a sequence of results, in order
JobIds(seq) == [i \in DOMAIN seq |-> ResultJobId(seq[i])]

\* every job id a result of the model can carry
IdRange == 0..(2 * NumJobs)

\* C1 (Conservation): when the collect loop of a finite pool has finished, all
\* NumJobs jobs were dispatched, exactly NumJobs results were received, in
\* workerPoolWithErrors successCount + errorCount = NumJobs with each counter equal
\* to the number of results of its kind, and no result carries a cancellation.
C1_Conservation ==
  mainPc = "done" =>
    /\ Len(dispatched) = NumJobs
    /\ Len(received) = NumJobs
    /\ \A i \in DOMAIN received : received[i].err \in {"none", "failure"}
    /\ pool = "errors" =>
         /\ successCount + errorCount = NumJobs
         /\ errorCount = Cardinality({i \in DOMAIN received : received[i].err = "failure"})
         /\ successCount = Cardinality({i \in DOMAIN received : received[i].err = "none"})

\* a finished run of workerPoolWithErrors in which some jobs failed and some did not
C1_Witness ==
  /\ mainPc = "done"
  /\ pool = "errors"
  /\ errorCount > 0
  /\ successCount > 0

\* C2 (No duplication): when the collect loop has finished, every job id occurs as
\* often among the received results as among the dispatched jobs, which is once
\* for each of 1..NumJobs.
C2_NoDuplication ==
  mainPc = "done" =>
    /\ \A id \in IdRange : Count(JobIds(received), id) = Count(dispatched, id)
    /\ \A id \in 1..NumJobs : Count(JobIds(received), id) = 1

\* a finished run of workerPattern whose results arrived out of dispatch order
C2_Witness ==
  /\ mainPc = "done"
  /\ pool = "pattern"
  /\ JobIds(received) # dispatched
  /\ \E w1, w2 \in Workers : w1 # w2 /\ wPc[w1] = "done" /\ wPc[w2] = "done"

\* C9 (Failure isolation): in workerPoolWithErrors no job ever has more than one
\* Result (pushed or received), a worker has returned only if the job queue is
\* closed and empty (a failure stops no worker), and when the collect loop has
\* finished every job has exactly one Result, failed or not.
C9_FailureIsolation ==
  pool = "errors" =>
    /\ \A id \in 1..NumJobs : Count(JobIds(received \o results), id) <= 1
    /\ \A w \in Workers : wPc[w] = "done" => (jobsClosed /\ Len(jobs) = 0)
    /\ mainPc = "done" =>
         \A id \in 1..NumJobs : Count(JobIds(received), id) = 1

\* the first job's result was a failure, the worker that failed it went on, and
\* all other jobs got a successful Result
C9_Witness ==
  /\ pool = "errors"
  /\ mainPc = "done"
  /\ received[1].err = "failure"
  /\ errorCount = 1
  /\ successCount = NumJobs - 1
  /\ \A w \in Workers : wPc[w] = "done"

\* ---- claims about the finite pools: ordering and termination ----
\* the set of the elements of a sequence
Range(seq) == {seq[i] : i \in DOMAIN seq}

\* whether seq is an initial part of other
IsPrefix(seq, other) ==
  /\ Len(seq) <= Len(other)
  /\ \A i \in DOMAIN seq : seq[i] = other[i]

\* the job ids of all Results pushed so far, in the order of the result queue
PushedIds == JobIds(received \o results)

\* the job ids of the Results of worker w, in the order of the result queue
PushedIdsOf(w) == SelectSeq(PushedIds, LAMBDA id : id \in Range(claimed[w]))

\* the jobs worker w took and has pushed the Result of, in the order it took them
CompletedOf(w) ==
  IF wPc[w] = "work" THEN SubSeq(claimed[w], 1, Len(claimed[w]) - 1) ELSE claimed[w]

\* C16 (per-worker ordering): for each worker, its Results stand in the result
\* queue in the order in which it took their jobs; and when one worker took
\* every job that was taken, the Results stand in dispatch order.
C16_PerWorkerOrdering ==
  \A w \in Workers :
    /\ PushedIdsOf(w) = CompletedOf(w)
    /\ (\A v \in Workers \ {w} : claimed[v] = <<>>) => IsPrefix(PushedIds, dispatched)

\* both workers pushed Results, one of them for two jobs, and the Results of
\* the two workers are not in dispatch order
C16_Witness ==
  /\ \E w \in Workers : Len(CompletedOf(w)) >= 2
  /\ \A w \in Workers : Len(CompletedOf(w)) >= 1
  /\ ~IsPrefix(PushedIds, dispatched)

\* the function body has returned and every worker has returned
PoolFinished == mainPc = "done" /\ \A w \in Workers : wPc[w] = "done"

\* the number of steps taken so far: sends, the close, job receptions, pushes,
\* collected Results, the return of the function body and of the workers
PoolProgress ==
  (j - 1) + (IF mainPc = "send" THEN 0 ELSE 1) + Len(dispatched) - Len(jobs)
  + Len(PushedIds) + (r - 1) + (IF mainPc = "done" THEN 1 ELSE 0)
  + Cardinality({w \in Workers : wPc[w] = "done"})

\* C17 (termination of the finite pools): when N <= cap(jobs) + cap(results) +
\* number of workers, a run that has not finished (function body and all
\* workers returned) can always take a step, and every step is one more of the
\* at most 4 N + 2 + NumWorkers steps a run has; so every run reaches the
\* finished state.
C17_Termination ==
  /\ [](NumJobs <= jobsCap + resultsCap + NumWorkers => (PoolFinished \/ ENABLED NextPool))
  /\ [](PoolProgress <= 4 * NumJobs + 2 + NumWorkers)
  /\ [][PoolProgress' = PoolProgress + 1]_vars

\* a finished run in which both queues had capacity 1
C17_Witness ==
  /\ PoolFinished
  /\ jobsCap = 1
  /\ resultsCap = 1
  /\ Len(received) = NumJobs

\* ---- claims about workerPoolWithContext ----
\* C3 (Conservation under cancellation): once cancellation is raised, the sender
\* has stopped and every worker has returned, as many Results were pushed as jobs
\* were dispatched, and no job is left in the job queue.
C3_ConservationUnderCancellation ==
  (ctxDone /\ senderPc = "done" /\ \A w \in CtxWorkers : cwPc[w] = "done") =>
    /\ Len(ctxEmitted) = Len(ctxDispatched)
    /\ Len(ctxJobs) = 0

\* C4 (Cancellation liveness): once cancellation is raised, eventually every
\* contextWorker has returned and wg.Wait() has returned.
C4_CancellationLiveness ==
  ctxDone ~> (ctxMainPc = "returned" /\ \A w \in CtxWorkers : cwPc[w] = "done")

\* C5 (wait covers the workers): whenever the function body is past wg.Wait(),
\* every contextWorker has returned.
C5_WaitCoversWorkers ==
  ctxMainPc = "returned" => \A w \in CtxWorkers : cwPc[w] = "done"

\* wg.Wait() has returned after one worker pushed a cancelled Result and another
\* pushed a normal one
C5_Witness ==
  /\ ctxMainPc = "returned"
  /\ \E i \in DOMAIN ctxEmitted : ctxEmitted[i].err = "cancelled"
  /\ \E i \in DOMAIN ctxEmitted : ctxEmitted[i].err = "none"

\* C6 (wait covers the dispatcher): whenever the function body is past
\* wg.Wait(), the job-sending goroutine has returned and closed the job queue.
C6_WaitCoversDispatcher ==
  ctxMainPc = "returned" => (senderPc = "done" /\ ctxJobsClosed)

\* C10 (Dispatcher shutdown): once cancellation is raised the job-sending
\* goroutine eventually returns with the job queue closed; the queue is never
\* closed twice; once it is closed it stays closed and no job is pushed; and
\* no worker stays forever in its select waiting for a job.
C10_DispatcherShutdown ==
  /\ ctxDone ~> (senderPc = "done" /\ ctxJobsClosed /\ closeCount = 1)
  /\ [](closeCount <= 1)
  /\ [][ctxJobsClosed => (ctxJobsClosed' /\ ctxDispatched' = ctxDispatched)]_vars
  /\ ctxDone ~> (\A w \in CtxWorkers : cwPc[w] # "select")

\* the sender has stopped on cancellation after pushing jobs, the queue was
\* closed once and still holds a job
C10_Witness ==
  /\ ctxDone
  /\ senderPc = "done"
  /\ ctxJobsClosed
  /\ closeCount = 1
  /\ Len(ctxDispatched) >= 2
  /\ Len(ctxJobs) >= 1

\* whether worker w holds a job it took from the job queue
Holding(w) == cwPc[w] \in {"check", "push", "pushCancelled"}

\* C11 (a claimed job is never silently dropped): a contextWorker that holds a
\* job stops holding it (to select again, or to return) only in a step that
\* pushes exactly one Result for that job; a worker that finds cancellation
\* raised at its check goes on to push a cancelled Result, without doing the
\* work, and returns in that very push; a worker that returns from its select
\* takes no job and pushes no Result.
C11_NoSilentDrop ==
  [][\A w \in CtxWorkers :
       /\ (Holding(w) /\ ~Holding(w)') =>
            /\ Len(ctxEmitted') = Len(ctxEmitted) + 1
            /\ ctxEmitted'[Len(ctxEmitted')].job = cwJob[w]
            /\ ctxResults' = Append(ctxResults, ctxEmitted'[Len(ctxEmitted')])
       /\ (cwPc[w] = "check" /\ ctxDone /\ cwPc'[w] # "check") =>
            cwPc'[w] = "pushCancelled"
       /\ (cwPc[w] = "pushCancelled" /\ cwPc'[w] # "pushCancelled") =>
            /\ cwPc'[w] = "done"
            /\ ctxEmitted'[Len(ctxEmitted')].err = "cancelled"
       /\ (cwPc[w] = "select" /\ cwPc'[w] = "done") =>
            /\ ctxJobs' = ctxJobs
            /\ ctxEmitted' = ctxEmitted
            /\ ctxResults' = ctxResults
    ]_vars

\* one worker returned from its select on cancellation while the other, having
\* taken a job, pushed the cancelled Result for it and returned
C11_Witness ==
  /\ \A w \in CtxWorkers : cwPc[w] = "done"
  /\ Len(ctxEmitted) = 1
  /\ ctxEmitted[1].err = "cancelled"
  /\ Len(ctxDispatched) >= 2

\* C12 (cancellation prevents new job claims): once cancellation is raised no
\* contextWorker takes a job out of the job queue.
C12_NoClaimAfterCancel ==
  [][ctxDone => \A w \in CtxWorkers : ~(cwPc[w] = "select" /\ cwPc'[w] = "check")]_vars

\* C13 (collector termination condition): when the result-collecting goroutine
\* has stopped, cancellation is raised, the result queue is empty, no worker can
\* still push a Result, and every pushed Result has been received.
C13_CollectorStopsWhenDrained ==
  collectorPc = "done" =>
    /\ ctxDone
    /\ Len(ctxResults) = 0
    /\ \A w \in CtxWorkers : cwPc[w] = "done"
    /\ ctxReceived = ctxEmitted

\* C15 (job identity in the generative dispatcher): the ids pushed into the
\* job queue are, in push order, 1, 2, ..., k (so pairwise distinct and
\* contiguous), and the id the sender would push next, which is the id that
\* loses the race when the sender stops on cancellation, is k + 1 and is not
\* among the pushed ids.
C15_JobIdentity ==
  /\ \A i \in DOMAIN ctxDispatched : ctxDispatched[i] = i
  /\ senderJ = Len(ctxDispatched) + 1
  /\ \A i \in DOMAIN ctxDispatched : ctxDispatched[i] # senderJ

\* the sender stopped on cancellation after pushing ids 1 and 2, while id 3
\* was still allowed
C15_Witness ==
  /\ ctxDone
  /\ senderPc = "done"
  /\ ctxDispatched = <<1, 2>>
  /\ senderJ = 3
  /\ senderJ <= MaxCtxJobs

\* ---- claims about rateLimitedWorkerPool ----
\* C7 (Rate bound per window): between one ticker firing and the next, at most
\* 2 rate tokens (one refill) are taken, counting all workers together.
C7_RateBoundPerWindow ==
  consumedInWindow <= RateLimiterCap

\* C8 (Rate bound scenario): when the Result of the last of the 6 jobs has been
\* pushed, the ticker has fired at least twice since the first job began
\* processing (ticks only grows, so this holds from the last push on exactly
\* when it holds at the last push).
C8_RateBoundScenario ==
  Emitted = NumRateJobs => ticks - firstStartTick >= 2

\* C14 (rate limiter ceiling): the number of permits in rateLimiter is always
\* between 0 and 2; the refill goroutine can always take the step of a send it
\* is at (it never blocks); and a send made while rateLimiter is full leaves
\* the number of permits as it was.
C14_RateLimiterCeiling ==
  /\ rateLimiter \in 0..RateLimiterCap
  /\ refillPc = "send1" =>
       /\ ENABLED RefillSend1
       /\ rateLimiter = RateLimiterCap => ENABLED (RefillSend1 /\ rateLimiter' = rateLimiter)
  /\ refillPc = "send2" =>
       /\ ENABLED RefillSend2
       /\ rateLimiter = RateLimiterCap => ENABLED (RefillSend2 /\ rateLimiter' = rateLimiter)

\* two refills have run and no job has begun: the second refill found the
\* channel full and both of its sends were discarded
C14_Witness ==
  /\ ticks >= 2
  /\ tickerC = 0
  /\ refillPc = "wait"
  /\ Started = 0
  /\ rateLimiter = RateLimiterCap

\* C18 (starts bounded by ticks): the number of jobs that have begun processing
\* is at most 2 times the number of ticker firings so far; in particular it is
\* 0 while the ticker has not fired.
C18_StartsBoundedByTicks ==
  /\ Started <= 2 * ticks
  /\ ticks = 0 => Started = 0

\* every permit of the first two ticks has been used: 4 jobs have begun
\* after 2 ticker firings
C18_Witness ==
  /\ ticks = 2
  /\ Started = 4

\* ---- claims about the mutex demo ----
\* whether dbCall i is between Lock and Unlock
InCriticalSection(i) == dbPc[i] \in {"read", "write", "unlock"}

\* whether dbCall i has appended its entry
HasAppended(i) == dbPc[i] \in {"unlock", "return", "done"}

\* C19 (mutex demo): at most one dbCall is between Lock and Unlock; results
\* always holds its len(dbData) empty entries followed by one entry for each
\* dbCall that has appended, each such dbData[i] once (no append is lost); and
\* when waitGroup.Wait() has returned every dbCall has finished, so results
\* has length 2 * len(dbData).
C19_MutexDemo ==
  /\ Cardinality({i \in DbCalls : InCriticalSection(i)}) <= 1
  /\ Len(dbResults) = NumDbCalls + Cardinality({i \in DbCalls : HasAppended(i)})
  /\ \A k \in 1..NumDbCalls : dbResults[k] = 0
  /\ \A i \in DbCalls :
       Count(dbResults, DbData(i)) = (IF HasAppended(i) THEN 1 ELSE 0)
  /\ dbMainPc = "waited" =>
       /\ \A i \in DbCalls : dbPc[i] = "done"
       /\ Len(dbResults) = 2 * NumDbCalls

\* Wait has returned and the entries were appended in another order than that
\* of dbData: the last dbCall appended first
C19_Witness ==
  /\ dbMainPc = "waited"
  /\ dbResults[NumDbCalls + 1] = DbData(NumDbCalls - 1)
  /\ dbResults[2 * NumDbCalls] = DbData(0)

\* ---- claims about pipelineDemo ----
\* the squares of 1..5 in generation order
Squares == [k \in 1..NumPipeline |-> k * k]

\* the three stages have returned
PipeFinished == genPc = "done" /\ sqPc = "done" /\ pmPc = "done"

\* C20 (pipeline): what the final stage has printed is always an initial part
\* of 1, 4, 9, 16, 25; a stage ends its loop only after the stage before it
\* has closed its channel; and eventually the three stages have returned with
\* exactly 1, 4, 9, 16, 25 printed.
C20_Pipeline ==
  /\ [](IsPrefix(printed, Squares))
  /\ [](sqPc \in {"close", "done"} => (numbersClosed /\ genPc = "done"))
  /\ [](pmPc = "done" => (squaresClosed /\ sqPc = "done"))
  /\ <>[](PipeFinished /\ printed = Squares)

\* the three stages have returned, both channels are closed and the five
\* squares were printed in order
C20_Witness ==
  /\ PipeFinished
  /\ printed = Squares
  /\ numbersClosed
  /\ squaresClosed

====
